---- MODULE Spec2Model ----
(***************************************************************************)
(* Model of src/src/directive-utils.ts: the two rewrites of a GraphQL      *)
(* query tree driven by the @computed directive,                           *)
(* replaceDirectivesByFragments and addFragmentsFromDirectives.            *)
(*                                                                         *)
(* AST nodes are JavaScript objects, so they live in a heap (mem): a       *)
(* sequence of node records addressed by their index.  Object identity is  *)
(* the index, an assignment `node.selections = ...` is an update of the    *)
(* heap cell, and a copy made by visit() or by lodash's mergeWith is a     *)
(* newly allocated cell.  Arrays are never changed in place by the code    *)
(* (flatten, concat, slice and spread all build new arrays), so arrays are *)
(* plain values.                                                           *)
(***************************************************************************)
EXTENDS Integers, Sequences, FiniteSets, TLC

\* Largest number of selections drawn for the selection set of the input query.
MaxSel == 2

\* Number of nested rewrite calls after which the recursion is taken to be
\* unbounded: no registry drawn has more fields than this, so a longer chain
\* of resolutions in progress resolves some registry field a second time.
MaxDepth == 2

(***************************************************************************)
(* Heap cells.  One record shape for every node kind:                      *)
(*   kind  "Def" | "SelectionSet" | "Field" | "FragmentSpread"             *)
(*         | "InlineFragment" | "Directive"                                *)
(*   name  name.value ("" where the kind has none)                         *)
(*   alias alias.value ("" when alias is undefined)                        *)
(*   args  the node's arguments, each abstracted to a token                *)
(*   dirs  the directives array: heap addresses                            *)
(*   sel   the selections array of a SelectionSet; an element is a node    *)
(*         (a one-element sequence) or, after the first visit, an array    *)
(*         of nodes returned by the Field visitor                          *)
(*   ss    the selectionSet: a heap address, 0 when undefined              *)
(*   targ  of a Directive: arguments[0].value.value, "" when absent        *)
(***************************************************************************)
Node(kind, name, alias, args, dirs, sel, ss, targ) ==
  [kind |-> kind, name |-> name, alias |-> alias, args |-> args,
   dirs |-> dirs, sel |-> sel, ss |-> ss, targ |-> targ]

\* The threaded state of a call: the heap and the log of the annotated fields
\* the resolver was called on (history only, never read by the rewrite).
Alloc(s, n) == [s EXCEPT !.mem = Append(@, n)]
NewId(s) == Len(s.mem) + 1

RECURSIVE Flatten(_)
\* lodash flatten: one level of array nesting removed
Flatten(items) ==
  IF items = <<>> THEN <<>> ELSE Head(items) \o Flatten(Tail(items))

Singles(ids) == [i \in DOMAIN ids |-> <<ids[i]>>]

\* Sequencing: Bind(v, K) is `const r = v; return K(r)`, with v evaluated
\* first and once.
Bind(v, K(_)) == CHOOSE y \in {K(r) : r \in {v}} : TRUE

(***************************************************************************)
(* Input trees are written as values and loaded into the heap.             *)
(***************************************************************************)
Dir(name, targ) == [name |-> name, targ |-> targ]
Sel(k, name, alias, args, dirs, hasSS, sub) ==
  [k |-> k, name |-> name, alias |-> alias, args |-> args, dirs |-> dirs,
   hasSS |-> hasSS, sub |-> sub]
Leaf(name) == Sel("Field", name, "", <<>>, <<>>, FALSE, <<>>)
Computed(name, type) ==
  Sel("Field", name, "", <<>>, <<Dir("computed", type)>>, FALSE, <<>>)

RECURSIVE LoadDirs(_, _), LoadSel(_, _), LoadSels(_, _)
LoadDirs(s, ds) ==
  IF ds = <<>> THEN [s |-> s, ids |-> <<>>]
  ELSE LET d == Head(ds)
           Cons(r) == [s |-> r.s, ids |-> <<NewId(s)>> \o r.ids]
       IN Bind(LoadDirs(Alloc(s, Node("Directive", d.name, "", <<>>, <<>>, <<>>, 0, d.targ)),
                        Tail(ds)), Cons)

LoadSels(s, vs) ==
  IF vs = <<>> THEN [s |-> s, ids |-> <<>>]
  ELSE LET Cons(r1, r2) == [s |-> r2.s, ids |-> <<r1.id>> \o r2.ids]
           Rest(r1) == Bind(LoadSels(r1.s, Tail(vs)), LAMBDA r2 : Cons(r1, r2))
       IN Bind(LoadSel(s, Head(vs)), Rest)

LoadSel(s, v) ==
  LET Make(rd, rs) ==
        LET s1 == IF v.hasSS
                  THEN Alloc(rs.s, Node("SelectionSet", "", "", <<>>, <<>>, Singles(rs.ids), 0, ""))
                  ELSE rs.s
            ssid == IF v.hasSS THEN NewId(rs.s) ELSE 0
        IN [s |-> Alloc(s1, Node(v.k, v.name, v.alias, v.args, rd.ids, <<>>, ssid, "")),
            id |-> NewId(s1)]
      Sub(rd) == Bind(IF v.hasSS THEN LoadSels(rd.s, v.sub) ELSE [s |-> rd.s, ids |-> <<>>],
                      LAMBDA rs : Make(rd, rs))
  IN Bind(LoadDirs(s, v.dirs), Sub)

\* An operation or fragment definition with the given directives and selections.
LoadDef(s, ds, vs) ==
  LoadSel(s, Sel("Def", "", "", <<>>, ds, TRUE, vs))

(***************************************************************************)
(* Node classifier and registry lookup.                                    *)
(***************************************************************************)
\* d.name.value === 'computed'
IsComputedDirective(s, d) == s.mem[d].name = "computed"

nodeHasComputedDirectives(s, n) ==
  \E i \in DOMAIN s.mem[n].dirs : IsComputedDirective(s, s.mem[n].dirs[i])

\* node.directives.find(d => d.name.value === 'computed'): the first one
ComputedDirective(s, n) ==
  LET ds == s.mem[n].dirs
      i == CHOOSE i \in DOMAIN ds :
             /\ IsComputedDirective(s, ds[i])
             /\ \A j \in 1..(i - 1) : ~IsComputedDirective(s, ds[j])
  IN ds[i]

\* The mutant of getDirectiveType: a missing type name is let through.
getDirectiveTypeUnchecked(s, d) == [st |-> "ok", type |-> s.mem[d].targ]

\* directiveNode.arguments[0].value.value, or the error when it is null
getDirectiveType(s, d) ==
  IF s.mem[d].targ = ""
  THEN [st |-> "InvalidAnnotation", type |-> ""]
  ELSE [st |-> "ok", type |-> s.mem[d].targ]

(***************************************************************************)
(* The registry e maps a type name to a map from field name to the         *)
(* address of the field's dependency fragment definition                   *)
(* (dependencies.definitions[0]); 0 when the field descriptor has no       *)
(* dependencies.                                                           *)
(***************************************************************************)
\* The part the two resolvers share: from the annotated field to the registry
\* field, with the three errors thrown on the way.
EntityField(s, e, n) ==
  LET t == getDirectiveType(s, ComputedDirective(s, n))
      fieldName == s.mem[n].name
  IN IF t.st # "ok" THEN [st |-> t.st, type |-> "", dep |-> 0]
     ELSE IF t.type \notin DOMAIN e
          THEN [st |-> "UnknownEntityType", type |-> t.type, dep |-> 0]
     ELSE IF fieldName \notin DOMAIN e[t.type]
          THEN [st |-> "UnknownComputedField", type |-> t.type, dep |-> 0]
     ELSE [st |-> "ok", type |-> t.type, dep |-> e[t.type][fieldName]]

\* History: one entry per call of the resolver, with the directive's type
\* argument, the field's name, and whether a resolution of the same registry
\* field was already in progress (stk: the registry fields being resolved).
Logged(s, n, stk) ==
  LET targ == s.mem[ComputedDirective(s, n)].targ
      name == s.mem[n].name
  IN [s EXCEPT !.met = Append(@, [targ |-> targ, name |-> name,
                                  again |-> \E i \in DOMAIN stk : stk[i] = <<targ, name>>])]

(***************************************************************************)
(* lodash mergeWith(acc, field, customizer), as used on lines 98-105.      *)
(***************************************************************************)
RECURSIVE Clone(_, _), CloneList(_, _), CloneItems(_, _)
\* mergeWith({}, field, ...): every property of the source is undefined in the
\* destination, the customizer returns undefined and lodash copies plain
\* objects and arrays recursively: a deep copy.
Clone(s, id) ==
  LET nd == s.mem[id]
      Make(rd, ri, rs) ==
        [s |-> Alloc(rs.s, [nd EXCEPT !.dirs = rd.ids, !.sel = ri.items, !.ss = rs.id]),
         id |-> NewId(rs.s)]
      Sub(rd, ri) ==
        Bind(IF nd.ss = 0 THEN [s |-> ri.s, id |-> 0] ELSE Clone(ri.s, nd.ss),
             LAMBDA rs : Make(rd, ri, rs))
      Items(rd) == Bind(CloneItems(rd.s, nd.sel), LAMBDA ri : Sub(rd, ri))
  IN Bind(CloneList(s, nd.dirs), Items)

CloneList(s, ids) ==
  IF ids = <<>> THEN [s |-> s, ids |-> <<>>]
  ELSE LET Cons(r1, r2) == [s |-> r2.s, ids |-> <<r1.id>> \o r2.ids]
           Rest(r1) == Bind(CloneList(r1.s, Tail(ids)), LAMBDA r2 : Cons(r1, r2))
       IN Bind(Clone(s, Head(ids)), Rest)

CloneItems(s, items) ==
  IF items = <<>> THEN [s |-> s, items |-> <<>>]
  ELSE LET Cons(r1, r2) == [s |-> r2.s, items |-> <<r1.ids>> \o r2.items]
           Rest(r1) == Bind(CloneItems(r1.s, Tail(items)), LAMBDA r2 : Cons(r1, r2))
       IN Bind(CloneList(s, Head(items)), Rest)

\* The mutant of MergeInto: the arrays of the later field replace those of
\* the earlier one, as every other property does.
MergeIntoOverwrite(s, a, f) ==
  LET na == s.mem[a]
      nf == s.mem[f]
      Set(rs) ==
        [rs.s EXCEPT !.mem[a] = [na EXCEPT !.name = nf.name,
                                           !.alias = IF nf.alias # "" THEN nf.alias ELSE @,
                                           !.args = nf.args,
                                           !.dirs = nf.dirs,
                                           !.ss = rs.id]]
  IN Bind(IF nf.ss = 0 THEN [s |-> s, id |-> na.ss] ELSE Clone(s, nf.ss), Set)

\* mergeWith(acc, field, ...) for a later field of the group: arrays of acc
\* (arguments, directives, selectionSet.selections) get the field's elements
\* appended by objValue.concat(srcValue), the elements themselves not copied;
\* name.value and alias.value are overwritten; an undefined source property
\* (alias, selectionSet) leaves the destination's alone.
MergeInto(s, a, f) ==
  LET na == s.mem[a]
      nf == s.mem[f]
      Set(rs) ==
        LET s1 == IF nf.ss # 0 /\ na.ss # 0
                  THEN [rs.s EXCEPT !.mem[na.ss].sel = @ \o rs.s.mem[nf.ss].sel]
                  ELSE rs.s
        IN [s1 EXCEPT !.mem[a] = [na EXCEPT !.name = nf.name,
                                            !.alias = IF nf.alias # "" THEN nf.alias ELSE @,
                                            !.args = @ \o nf.args,
                                            !.dirs = @ \o nf.dirs,
                                            !.ss = rs.id]]
  IN Bind(IF nf.ss # 0 /\ na.ss = 0 THEN Clone(s, nf.ss) ELSE [s |-> s, id |-> na.ss], Set)

RECURSIVE MergeRest(_, _, _)
MergeRest(s, a, group) ==
  IF group = <<>> THEN s
  ELSE Bind(MergeInto(s, a, Head(group)), LAMBDA s1 : MergeRest(s1, a, Tail(group)))

\* fields.reduce((acc, field) => mergeWith(acc, field, ...), {})
MergeFields(s, group) ==
  LET Rest(r) == Bind(MergeRest(r.s, r.id, Tail(group)), LAMBDA s1 : [s |-> s1, id |-> r.id])
  IN Bind(Clone(s, Head(group)), Rest)

\* field.alias?.value || field.name.value
ResponseKey(s, f) == IF s.mem[f].alias # "" THEN s.mem[f].alias ELSE s.mem[f].name

RECURSIVE FirstSeenKeysNewestFirst(_, _, _)
\* The mutant of FirstSeenKeys: a new key goes before the keys seen so far.
FirstSeenKeysNewestFirst(s, fields, seen) ==
  IF fields = <<>> THEN seen
  ELSE LET k == ResponseKey(s, Head(fields))
       IN FirstSeenKeysNewestFirst(s, Tail(fields),
                                   IF \E i \in DOMAIN seen : seen[i] = k THEN seen
                                   ELSE <<k>> \o seen)

RECURSIVE FirstSeenKeys(_, _, _)
\* The keys of the accumulator object of lines 88-92, in insertion order.
FirstSeenKeys(s, fields, seen) ==
  IF fields = <<>> THEN seen
  ELSE LET k == ResponseKey(s, Head(fields))
       IN FirstSeenKeys(s, Tail(fields),
                        IF \E i \in DOMAIN seen : seen[i] = k THEN seen ELSE Append(seen, k))

RECURSIVE MergeGroups(_, _, _)
\* Object.values(fields).map(group => group.reduce(mergeWith, {}))
MergeGroups(s, fields, keys) ==
  IF keys = <<>> THEN [s |-> s, ids |-> <<>>]
  ELSE LET InGroup(f) == ResponseKey(s, f) = Head(keys)
           Cons(r1, r2) == [s |-> r2.s, ids |-> <<r1.id>> \o r2.ids]
           Rest(r1) == Bind(MergeGroups(r1.s, fields, Tail(keys)), LAMBDA r2 : Cons(r1, r2))
       IN Bind(MergeFields(s, SelectSeq(fields, InGroup)), Rest)

\* The mutant of NormalizeSelections: the merged fields are put back first and
\* the non-Field selections after them.
NormalizeSelectionsFieldsFirst(s, n) ==
  LET flat == Flatten(s.mem[n].sel)
      IsField(x) == s.mem[x].kind = "Field"
      NotField(x) == s.mem[x].kind # "Field"
      fields == SelectSeq(flat, IsField)
      Assign(r) == [r.s EXCEPT !.mem[n].sel = Singles(r.ids \o SelectSeq(flat, NotField))]
  IN Bind(MergeGroups(s, fields, FirstSeenKeys(s, fields, <<>>)), Assign)

\* The SelectionSet visitor of the second visit of replace-mode, lines 80-110:
\* node.selections is assigned in place, on the object the visitor was given.
NormalizeSelections(s, n) ==
  LET flat == Flatten(s.mem[n].sel)
      IsField(x) == s.mem[x].kind = "Field"
      NotField(x) == s.mem[x].kind # "Field"
      fields == SelectSeq(flat, IsField)
      Assign(r) == [r.s EXCEPT !.mem[n].sel = Singles(SelectSeq(flat, NotField) \o r.ids)]
  IN Bind(MergeGroups(s, fields, FirstSeenKeys(s, fields, <<>>)), Assign)

\* The SelectionSet visitor of the second visit of augment-mode, lines 162-165.
FlattenSelections(s, n) ==
  [s EXCEPT !.mem[n].sel = Singles(Flatten(@))]

(***************************************************************************)
(* graphql's visit(root, visitor).  An enter function that returns         *)
(* undefined lets the traversal descend; one that returns a node replaces  *)
(* the node and the traversal descends into the replacement; one that      *)
(* returns anything else (null, an array) replaces the node and the        *)
(* traversal does not descend.  A node or array below which something was  *)
(* replaced is copied on leaving (a shallow copy with the edits applied);  *)
(* everything else of the result is shared with the tree visited.          *)
(* Children are visited in the order of QueryDocumentKeys: directives      *)
(* before selectionSet.                                                    *)
(*                                                                         *)
(* A result is [s, st, edited, val]: the state after, "ok" or the error    *)
(* thrown, whether the parent has an edit at this key, and the value the   *)
(* parent gets: for the first visit an array element (<<node>> or the      *)
(* array returned by the Field visitor).                                   *)
(***************************************************************************)
Same(s, n) == [s |-> s, st |-> "ok", edited |-> FALSE, val |-> <<n>>]
Thrown(s, st) == [s |-> s, st |-> st, edited |-> FALSE, val |-> <<>>]

\* The result of a call: the state after, "ok" with the tree returned (out),
\* "null" for the null returned on a null query, an error thrown, or "diverge".
\* first is the tree as the first visit left it (history, for the outermost call).
NoTree == [mem |-> <<>>, root |-> 0]
Returned(s, st, out) == [s |-> s, st |-> st, out |-> out, first |-> NoTree]

RECURSIVE replaceDirectivesByFragments(_, _, _, _), addFragmentsFromDirectives(_, _, _, _),
          FirstVisit(_, _, _, _, _), FirstVisitList(_, _, _, _, _)

\* The mutant of replaceDirectiveByFragment: a registry field whose resolution
\* is in progress is not resolved again, its fragment is returned as stored.
replaceDirectiveByFragmentGuarded(s, e, n, stk) ==
  LET Resolve(f, s1) ==
        IF f.st # "ok" THEN Returned(s1, f.st, 0)
        ELSE IF \E i \in DOMAIN stk : stk[i] = <<f.type, s1.mem[n].name>>
        THEN Returned(s1, "ok", f.dep)
        ELSE replaceDirectivesByFragments(s1, e, f.dep, Append(stk, <<f.type, s1.mem[n].name>>))
  IN Bind(EntityField(s, e, n), LAMBDA f : Bind(Logged(s, n, stk), LAMBDA s1 : Resolve(f, s1)))

\* The resolver of replace-mode, lines 46-67.
replaceDirectiveByFragment(s, e, n, stk) ==
  LET Resolve(f, s1) ==
        IF f.st # "ok" THEN Returned(s1, f.st, 0)
        ELSE replaceDirectivesByFragments(s1, e, f.dep, Append(stk, <<f.type, s1.mem[n].name>>))
  IN Bind(EntityField(s, e, n), LAMBDA f : Bind(Logged(s, n, stk), LAMBDA s1 : Resolve(f, s1)))

\* The resolver of augment-mode, lines 128-147.
addFragmentToNode(s, e, n, stk) ==
  LET Resolve(f, s1) ==
        IF f.st # "ok" THEN Returned(s1, f.st, 0)
        ELSE addFragmentsFromDirectives(s1, e, f.dep, Append(stk, <<f.type, s1.mem[n].name>>))
  IN Bind(EntityField(s, e, n), LAMBDA f : Bind(Logged(s, n, stk), LAMBDA s1 : Resolve(f, s1)))

\* The Field visitors of the first visits, lines 70-76 and 150-156, on a field
\* that has the directive.  fragment.selectionSet on the null that the
\* recursive call returns for an undefined fragment is a TypeError.
FieldVisitor(s, e, n, mode, stk) ==
  LET Splice(fragment) ==
        IF fragment.st = "null" THEN Thrown(fragment.s, "TypeError")
        ELSE IF fragment.st # "ok" THEN Thrown(fragment.s, fragment.st)
        ELSE LET selections ==
                   Flatten(fragment.s.mem[fragment.s.mem[fragment.out].ss].sel)
             IN [s |-> fragment.s, st |-> "ok", edited |-> TRUE,
                 val |-> IF mode = "replace" THEN selections ELSE <<n>> \o selections]
  IN Bind(IF mode = "replace" THEN replaceDirectiveByFragment(s, e, n, stk)
          ELSE addFragmentToNode(s, e, n, stk), Splice)

\* visit(query, {Field}) below node n
FirstVisit(s, e, n, mode, stk) ==
  LET nd == s.mem[n]
      LeaveSelectionSet(r) ==
        IF r.st # "ok" THEN Thrown(r.s, r.st)
        ELSE IF ~r.edited THEN Same(r.s, n)
        ELSE [s |-> Alloc(r.s, [r.s.mem[n] EXCEPT !.sel = r.val]),
              st |-> "ok", edited |-> TRUE, val |-> <<NewId(r.s)>>]
      LeaveNode(r) ==
        IF r.st # "ok" THEN Thrown(r.s, r.st)
        ELSE IF ~r.edited THEN Same(r.s, n)
        ELSE [s |-> Alloc(r.s, [r.s.mem[n] EXCEPT !.ss = r.val[1]]),
              st |-> "ok", edited |-> TRUE, val |-> <<NewId(r.s)>>]
  IN IF nd.kind = "Field" /\ nodeHasComputedDirectives(s, n)
     THEN FieldVisitor(s, e, n, mode, stk)
     ELSE IF nd.kind = "SelectionSet"
     THEN Bind(FirstVisitList(s, e, Flatten(nd.sel), mode, stk), LeaveSelectionSet)
     ELSE IF nd.ss = 0 THEN Same(s, n)
     ELSE Bind(FirstVisit(s, e, nd.ss, mode, stk), LeaveNode)

\* the elements of a selections array, in order; val is the edited array
FirstVisitList(s, e, ids, mode, stk) ==
  IF ids = <<>> THEN [s |-> s, st |-> "ok", edited |-> FALSE, val |-> <<>>]
  ELSE LET Cons(r1, r2) ==
             [s |-> r2.s, st |-> r2.st, edited |-> r1.edited \/ r2.edited,
              val |-> IF r2.st = "ok" THEN <<r1.val>> \o r2.val ELSE <<>>]
           Rest(r1) ==
             IF r1.st # "ok" THEN Thrown(r1.s, r1.st)
             ELSE Bind(FirstVisitList(r1.s, e, Tail(ids), mode, stk),
                       LAMBDA r2 : Cons(r1, r2))
       IN Bind(FirstVisit(s, e, Head(ids), mode, stk), Rest)

\* The mutant of DirectiveVisitor: no directive is removed.
DirectiveVisitorKeep(s, d, mode) == FALSE

\* The Directive visitor of the second visit of replace-mode, lines 111-115:
\* TRUE when it returns null.  Augment-mode has no Directive visitor.
DirectiveVisitor(s, d, mode) == mode = "replace" /\ IsComputedDirective(s, d)

\* The SelectionSet visitors of the second visits: both change the node in
\* place and return it.
SelectionSetVisitor(s, n, mode) ==
  IF mode = "replace" THEN NormalizeSelections(s, n) ELSE FlattenSelections(s, n)

RECURSIVE SecondVisit(_, _, _), SecondVisitList(_, _, _)
\* visit(firstPass, {SelectionSet, Directive}) below node n; val is the node
\* the parent gets, 0 when the node is removed
SecondVisit(s, n, mode) ==
  LET nd == s.mem[n]
  IN IF nd.kind = "Directive"
     THEN IF DirectiveVisitor(s, n, mode)
          THEN [s |-> s, edited |-> TRUE, val |-> 0]
          ELSE [s |-> s, edited |-> FALSE, val |-> n]
     ELSE IF nd.kind = "SelectionSet"
     THEN LET LeaveSelectionSet(r) ==
                IF ~r.edited THEN [s |-> r.s, edited |-> TRUE, val |-> n]
                ELSE [s |-> Alloc(r.s, [r.s.mem[n] EXCEPT !.sel = Singles(r.val)]),
                      edited |-> TRUE, val |-> NewId(r.s)]
              Entered(s1) ==
                Bind(SecondVisitList(s1, Flatten(s1.mem[n].sel), mode), LeaveSelectionSet)
          IN Bind(SelectionSetVisitor(s, n, mode), Entered)
     ELSE LET LeaveNode(rd, rs) ==
                IF ~(rd.edited \/ rs.edited) THEN [s |-> rs.s, edited |-> FALSE, val |-> n]
                ELSE [s |-> Alloc(rs.s, [rs.s.mem[n] EXCEPT !.dirs = rd.val, !.ss = rs.val]),
                      edited |-> TRUE, val |-> NewId(rs.s)]
              Sub(rd) ==
                Bind(IF nd.ss = 0 THEN [s |-> rd.s, edited |-> FALSE, val |-> 0]
                     ELSE SecondVisit(rd.s, nd.ss, mode),
                     LAMBDA rs : LeaveNode(rd, rs))
          IN Bind(SecondVisitList(s, nd.dirs, mode), Sub)

\* the elements of an array, in order; val is the array with the edits applied
SecondVisitList(s, ids, mode) ==
  IF ids = <<>> THEN [s |-> s, edited |-> FALSE, val |-> <<>>]
  ELSE LET Cons(r1, r2) ==
             [s |-> r2.s, edited |-> r1.edited \/ r2.edited,
              val |-> (IF r1.val = 0 THEN <<>> ELSE <<r1.val>>) \o r2.val]
           Rest(r1) == Bind(SecondVisitList(r1.s, Tail(ids), mode), LAMBDA r2 : Cons(r1, r2))
       IN Bind(SecondVisit(s, Head(ids), mode), Rest)

\* The two passes of either function, lines 69-116 and 149-166, on a non-null
\* query.
TwoPasses(s, e, query, mode, stk) ==
  LET Result(firstPass, r) ==
        [Returned(r.s, "ok", r.val) EXCEPT
           !.first = [mem |-> firstPass.s.mem, root |-> firstPass.val[1]]]
      Second(firstPass) ==
        IF firstPass.st # "ok" THEN Returned(firstPass.s, firstPass.st, 0)
        ELSE Bind(SecondVisit(firstPass.s, firstPass.val[1], mode),
                  LAMBDA r : Result(firstPass, r))
  IN Bind(FirstVisit(s, e, query, mode, stk), Second)

\* lines 38-117.  query = 0 is the null or undefined query.  A call nested
\* deeper than MaxDepth stands for the recursion that does not end.
replaceDirectivesByFragments(s, e, query, stk) ==
  IF query = 0 THEN Returned(s, "null", 0)
  ELSE IF Len(stk) > MaxDepth THEN Returned(s, "diverge", 0)
  ELSE TwoPasses(s, e, query, "replace", stk)

\* lines 120-167
addFragmentsFromDirectives(s, e, query, stk) ==
  IF query = 0 THEN Returned(s, "null", 0)
  ELSE IF Len(stk) > MaxDepth THEN Returned(s, "diverge", 0)
  ELSE TwoPasses(s, e, query, "augment", stk)

(***************************************************************************)
(* The inputs drawn: selections of the query, and registries.              *)
(***************************************************************************)
Spread(name, dirs) == Sel("FragmentSpread", name, "", <<>>, dirs, FALSE, <<>>)
Inline(sub) == Sel("InlineFragment", "", "", <<>>, <<>>, TRUE, sub)

\* a(x) @skip { a }
SelArgs == Sel("Field", "a", "", <<"x">>, <<Dir("skip", "")>>, TRUE, <<Leaf("a")>>)
\* a: b { b }
SelAlias == Sel("Field", "b", "a", <<>>, <<>>, TRUE, <<Leaf("b")>>)
\* ...S @computed(type: "User")
SelSpread == Spread("S", <<Dir("computed", "User")>>)
\* f @computed(type: "User") { g @computed(type: "User") }
SelNested ==
  Sel("Field", "f", "", <<>>, <<Dir("computed", "User")>>, TRUE, <<Computed("g", "User")>>)
\* g @computed(type: "User")
SelG == Computed("g", "User")
\* b { f @computed(type: "User") }
SelInner == Sel("Field", "b", "", <<>>, <<>>, TRUE, <<Computed("f", "User")>>)
\* f @computed @computed(type: "User")
SelNoType ==
  Sel("Field", "f", "", <<>>, <<Dir("computed", ""), Dir("computed", "User")>>, FALSE, <<>>)

QuerySelections == {SelArgs, SelAlias, SelSpread, SelNested, SelG, SelInner, SelNoType}

\* A registry is written as a sequence of fields [type, name, has, sels]: has
\* is FALSE for a field descriptor without dependencies, sels the selections
\* of its dependency fragment.
Entry(type, name, sels) == [type |-> type, name |-> name, has |-> TRUE, sels |-> sels]
NoDependencies(type, name) == [type |-> type, name |-> name, has |-> FALSE, sels |-> <<>>]

Registries ==
  { \* f: { a ... { b ...S } }   g: { b { a } b { b } }
    << Entry("User", "f", <<Leaf("a"), Inline(<<Leaf("b"), Spread("S", <<>>)>>)>>),
       Entry("User", "g", << Sel("Field", "b", "", <<>>, <<>>, TRUE, <<Leaf("a")>>),
                             Sel("Field", "b", "", <<>>, <<>>, TRUE, <<Leaf("b")>>) >>) >>,
    \* f: { g @computed(type: "User") a }   g: { a { a } ...S }
    << Entry("User", "f", <<Computed("g", "User"), Leaf("a")>>),
       Entry("User", "g", << Sel("Field", "a", "", <<>>, <<>>, TRUE, <<Leaf("a")>>),
                             Spread("S", <<>>) >>) >>,
    \* f depends on itself
    << Entry("User", "f", <<Computed("f", "User")>>),
       Entry("User", "g", <<Leaf("a")>>) >>,
    \* f and g depend on each other
    << Entry("User", "f", <<Computed("g", "User")>>),
       Entry("User", "g", <<Leaf("b"), Computed("f", "User")>>) >>,
    \* f has no dependencies
    << NoDependencies("User", "f"),
       Entry("User", "g", <<Computed("f", "User")>>) >>,
    \* the fragment of f has a directive without a type
    << Entry("User", "f", <<Leaf("a"), Computed("g", "")>>),
       Entry("User", "g", <<Leaf("a")>>) >>,
    \* no entity type at all
    << >>,
    \* User has no field g
    << Entry("User", "f", <<Leaf("a")>>) >>,
    \* the fragment of f names an unknown type before it names f
    << Entry("User", "f", <<Computed("x", "Ghost"), Computed("f", "User")>>),
       Entry("User", "g", <<Leaf("a")>>) >>,
    \* the fragment of g names g below an annotated field
    << Entry("User", "f", <<Leaf("a")>>),
       Entry("User", "g", << Sel("Field", "f", "", <<>>, <<Dir("computed", "User")>>, TRUE,
                                 <<Computed("g", "User")>>) >>) >> }

RECURSIVE LoadEntries(_, _)
LoadEntries(s, entries) ==
  IF entries = <<>> THEN [s |-> s, ids |-> <<>>]
  ELSE LET x == Head(entries)
           Cons(r1, r2) == [s |-> r2.s, ids |-> <<r1.id>> \o r2.ids]
           Rest(r1) == Bind(LoadEntries(r1.s, Tail(entries)), LAMBDA r2 : Cons(r1, r2))
       IN Bind(IF x.has THEN LoadDef(s, <<>>, x.sels) ELSE [s |-> s, id |-> 0], Rest)

\* The registry object built over the loaded fragments.
EntitiesOf(entries, ids) ==
  [t \in {entries[i].type : i \in DOMAIN entries} |->
     [n \in {entries[i].name : i \in {j \in DOMAIN entries : entries[j].type = t}} |->
        ids[CHOOSE i \in DOMAIN entries : entries[i].type = t /\ entries[i].name = n]]]

VARIABLES
  mem,       \* the heap
  met,       \* history: the resolver's calls
  entities,  \* the registry passed to the call
  query,     \* the tree passed to the call: its address, 0 for null
  mode,      \* "replace" | "augment": the function called
  pc,        \* "start" | "returned" | "again"
  st,        \* how the call ended
  out,       \* the tree returned, 0 when none
  first,     \* history: the tree after the first visit of the outermost call
  mem0,      \* history: the heap when the call was made
  prev       \* history: the heap and tree returned by the call before this one

vars == <<mem, met, entities, query, mode, pc, st, out, first, mem0, prev>>

Init ==
  \E entries \in Registries, k \in 0..MaxSel, m \in {"replace", "augment"} :
  \E sels \in [1..k -> QuerySelections] :
    LET Start(r, q) ==
          /\ mem = q.s.mem
          /\ met = <<>>
          /\ entities = EntitiesOf(entries, r.ids)
          /\ query = q.id
          /\ mode = m
          /\ pc = "start"
          /\ st = "none"
          /\ out = 0
          /\ first = NoTree
          /\ mem0 = q.s.mem
          /\ prev = NoTree
    IN \E r \in {LoadEntries([mem |-> <<>>, met |-> <<>>], entries)} :
       \* no selection drawn stands for the null query
       \E q \in {IF k = 0 THEN [s |-> r.s, id |-> 0] ELSE LoadDef(r.s, <<>>, sels)} :
         Start(r, q)

\* The caller calls replaceDirectivesByFragments(query, entities).
Replace ==
  /\ pc = "start"
  /\ mode = "replace"
  /\ LET Return(r) ==
           /\ mem' = r.s.mem
           /\ met' = r.s.met
           /\ st' = r.st
           /\ out' = r.out
           /\ first' = r.first
     IN \E r \in {replaceDirectivesByFragments([mem |-> mem, met |-> met], entities, query, <<>>)} : Return(r)
  /\ pc' = "returned"
  /\ UNCHANGED <<entities, query, mode, mem0, prev>>

\* The caller calls addFragmentsFromDirectives(query, entities).
Augment ==
  /\ pc = "start"
  /\ mode = "augment"
  /\ LET Return(r) ==
           /\ mem' = r.s.mem
           /\ met' = r.s.met
           /\ st' = r.st
           /\ out' = r.out
           /\ first' = r.first
     IN \E r \in {addFragmentsFromDirectives([mem |-> mem, met |-> met], entities, query, <<>>)} : Return(r)
  /\ pc' = "returned"
  /\ UNCHANGED <<entities, query, mode, mem0, prev>>

\* The caller passes the tree that replaceDirectivesByFragments returned to
\* replaceDirectivesByFragments again.
ReplaceAgain ==
  /\ pc = "returned"
  /\ mode = "replace"
  /\ st = "ok"
  /\ LET Return(r) ==
           /\ mem' = r.s.mem
           /\ st' = r.st
           /\ out' = r.out
           /\ first' = r.first
     IN \E r \in {replaceDirectivesByFragments([mem |-> mem, met |-> <<>>], entities, out, <<>>)} : Return(r)
  /\ prev' = [mem |-> mem, root |-> out]
  /\ pc' = "again"
  /\ UNCHANGED <<met, entities, query, mode, mem0>>

Next == Replace \/ Augment \/ ReplaceAgain

Spec == Init /\ [][Next]_vars

(***************************************************************************)
(* Reading trees off the heap.                                             *)
(***************************************************************************)
Heap(m) == [mem |-> m, met |-> <<>>]

RECURSIVE Reach(_, _)
\* The objects of the tree below id (id included): the nodes and their
\* directives, selection sets and selections.
Reach(m, id) ==
  IF id = 0 THEN {}
  ELSE LET nd == m[id]
           flat == Flatten(nd.sel)
           kids == {nd.dirs[i] : i \in DOMAIN nd.dirs} \cup {flat[i] : i \in DOMAIN flat}
                     \cup (IF nd.ss = 0 THEN {} ELSE {nd.ss})
       IN {id} \cup UNION {Reach(m, c) : c \in kids}

RECURSIVE Val(_, _)
\* The tree below id as a value: two trees are equal as values when they have
\* the same nodes with the same properties and children in the same order.
Val(m, id) ==
  LET nd == m[id]
      flat == Flatten(nd.sel)
  IN [kind |-> nd.kind, name |-> nd.name, alias |-> nd.alias, args |-> nd.args,
      targ |-> nd.targ,
      dirs |-> [i \in DOMAIN nd.dirs |-> Val(m, nd.dirs[i])],
      sel |-> [i \in DOMAIN flat |-> Val(m, flat[i])],
      ss |-> IF nd.ss = 0 THEN <<>> ELSE <<Val(m, nd.ss)>>]

\* The selections of the selection set of node id, flattened; none without one.
Selections(m, id) ==
  IF id = 0 THEN <<>>
  ELSE IF m[id].ss = 0 THEN <<>> ELSE Flatten(m[m[id].ss].sel)

RECURSIVE Shape(_, _)
\* A selection as its kind, its response key (the name of a fragment spread,
\* "" for an inline fragment) and the shapes of its sub-selections.
Shape(m, id) ==
  LET sub == Selections(m, id)
  IN [kind |-> m[id].kind,
      key |-> IF m[id].kind = "Field" THEN ResponseKey(Heap(m), id) ELSE m[id].name,
      sels |-> [i \in DOMAIN sub |-> Shape(m, sub[i])]]

Labels(sels) == [i \in DOMAIN sels |-> <<sels[i].kind, sels[i].key>>]

NonFields(sels) == SelectSeq(sels, LAMBDA v : v.kind # "Field")

Occurrences(sels, k) == SelectSeq(sels, LAMBDA v : v.kind = "Field" /\ v.key = k)

RECURSIVE SeenKeys(_, _)
\* The response keys of the fields of sels, each once, in the order first seen.
SeenKeys(sels, seen) ==
  IF sels = <<>> THEN seen
  ELSE LET v == Head(sels)
       IN SeenKeys(Tail(sels),
                   IF v.kind # "Field" \/ (\E i \in DOMAIN seen : seen[i] = v.key)
                   THEN seen ELSE Append(seen, v.key))

\* The sub-selections of the occurrences, joined in order of occurrence.
Joined(occ) == Flatten([i \in DOMAIN occ |-> occ[i].sels])

RECURSIVE Normalized(_)
\* What the normalize pass is to make of a selection list: the non-Field
\* selections first, then one Field per response key in first-seen order with
\* the sub-selections of its occurrences joined, every sub-selection list
\* normalized in turn.
Normalized(sels) ==
  LET nf == NonFields(sels)
      keys == SeenKeys(sels, <<>>)
  IN [i \in DOMAIN nf |-> [nf[i] EXCEPT !.sels = Normalized(@)]]
     \o [i \in DOMAIN keys |->
           [kind |-> "Field", key |-> keys[i],
            sels |-> Normalized(Joined(Occurrences(sels, keys[i])))]]

RECURSIVE Pairs(_, _)
\* Every selection list of the expanded tree (the occurrences of one response
\* key taken together) paired with the selection list the output has for it.
Pairs(exp, got) ==
  LET nf == NonFields(exp)
      keys == SeenKeys(exp, <<>>)
      hits == {kj \in {keys[i] : i \in DOMAIN keys} \X DOMAIN got :
                 got[kj[2]].kind = "Field" /\ got[kj[2]].key = kj[1]}
  IN {<<exp, got>>}
     \cup UNION {Pairs(nf[i].sels, got[i].sels) : i \in DOMAIN nf \cap DOMAIN got}
     \cup UNION {Pairs(Joined(Occurrences(exp, kj[1])), got[kj[2]].sels) : kj \in hits}

\* The call returned a tree in replace-mode.
ReplaceReturned == mode = "replace" /\ pc # "start" /\ st = "ok"

\* The selections of the tree after the first visit, and of the tree returned.
Expanded == [i \in DOMAIN Selections(first.mem, first.root) |->
               Shape(first.mem, Selections(first.mem, first.root)[i])]
Output == [i \in DOMAIN Selections(mem, out) |-> Shape(mem, Selections(mem, out)[i])]

\* The fragments stored in the registry, and the registry's fields.
RegistryFields ==
  UNION {{<<t, n>> : n \in DOMAIN entities[t]} : t \in DOMAIN entities}
RegistryRoots == {entities[f[1]][f[2]] : f \in RegistryFields} \ {0}

\* The annotated fields of the tree below root.
AnnotatedIn(m, root) ==
  {id \in Reach(m, root) : m[id].kind = "Field" /\ nodeHasComputedDirectives(Heap(m), id)}

\* The registry field an annotated field names: <<type, field name>>.
Target(m, id) == <<m[ComputedDirective(Heap(m), id)].targ, m[id].name>>

\* What the three checks make of a field the resolver was called on.
Lookup(targ, name) ==
  IF targ = "" THEN "InvalidAnnotation"
  ELSE IF targ \notin DOMAIN entities THEN "UnknownEntityType"
  ELSE IF name \notin DOMAIN entities[targ] THEN "UnknownComputedField"
  ELSE "ok"

(***************************************************************************)
(* Properties.                                                             *)
(***************************************************************************)

\* C1: a tree that replaceDirectivesByFragments returns has no directive named
\* 'computed' anywhere: on no field, on no fragment spread or inline fragment,
\* on no selection that came from a dependency fragment.
C1_NoComputedInOutput ==
  ReplaceReturned =>
    \A id \in Reach(mem, out) : ~(mem[id].kind = "Directive" /\ mem[id].name = "computed")

\* A replace-mode call returned for a query with the directive on a non-Field
\* selection and on a field whose dependency fragment had an annotated field to
\* resolve in turn.
C1_Witness ==
  /\ ReplaceReturned /\ pc = "returned"
  /\ Len(met) >= 2
  /\ \E id \in Reach(mem0, query) :
       /\ mem0[id].kind = "FragmentSpread"
       /\ nodeHasComputedDirectives(Heap(mem0), id)

\* C2: when addFragmentsFromDirectives returns, every annotated field of the
\* input, at any depth, is in a selection set of the output as it was, and
\* every top-level selection of its dependency fragment comes after it in that
\* selection set.
C2_AnnotatedKeptWithSiblings ==
  (mode = "augment" /\ pc = "returned" /\ st = "ok") =>
    \A x \in AnnotatedIn(mem0, query) :
      \E n \in Reach(mem, out) :
        /\ mem[n].kind = "SelectionSet"
        /\ \E i \in DOMAIN Flatten(mem[n].sel) :
             LET sels == Flatten(mem[n].sel)
                 f == Target(mem0, x)
                 deps == IF Lookup(f[1], f[2]) = "ok"
                         THEN Selections(mem0, entities[f[1]][f[2]]) ELSE <<>>
             IN /\ Val(mem, sels[i]) = Val(mem0, x)
                /\ \A d \in DOMAIN deps :
                     \E j \in DOMAIN sels :
                       /\ j > i
                       /\ mem[sels[j]].kind = mem0[deps[d]].kind
                       /\ mem[sels[j]].name = mem0[deps[d]].name
                       /\ mem[sels[j]].alias = mem0[deps[d]].alias

\* C3: after a call of either function, however it ended, every dependency
\* tree of the registry is the tree it was before the call.
C3_RegistryUnchanged ==
  pc # "start" => \A r \in RegistryRoots : Val(mem, r) = Val(mem0, r)

\* C4: in replace-mode, where a selection list of the expanded tree has two or
\* more fields with one response key, the output has exactly one field with
\* that key, and its sub-selections are those of the occurrences joined in
\* order and normalized.
C4_SameKeyFieldsMerged ==
  ReplaceReturned =>
    \A p \in Pairs(Expanded, Output) :
      \A k \in {p[1][i].key : i \in {j \in DOMAIN p[1] : p[1][j].kind = "Field"}} :
        Len(Occurrences(p[1], k)) >= 2 =>
          /\ Len(Occurrences(p[2], k)) = 1
          /\ Occurrences(p[2], k)[1].sels = Normalized(Joined(Occurrences(p[1], k)))

\* Two fields with response key a, one with sub-selections {a} and one with
\* {b}, were merged into one with {a, b}.
C4_Witness ==
  /\ ReplaceReturned /\ pc = "returned"
  /\ Len(Occurrences(Expanded, "a")) = 2
  /\ Labels(Occurrences(Expanded, "a")[1].sels) = << <<"Field", "a">> >>
  /\ Labels(Occurrences(Expanded, "a")[2].sels) = << <<"Field", "b">> >>
  /\ Len(Occurrences(Output, "a")) = 1
  /\ Labels(Occurrences(Output, "a")[1].sels) = << <<"Field", "a">>, <<"Field", "b">> >>

\* C5: the normalize pass of replace-mode run on a tree that is its own output
\* returns a tree equal to the one it was given.
C5_NormalizeIdempotent ==
  pc = "again" => st = "ok" /\ Val(mem, out) = Val(prev.mem, prev.root)

\* The pass was run again on an output that has a merged field with an
\* argument, a directive and a selection set of two fields.
C5_Witness ==
  /\ pc = "again"
  /\ \E id \in Reach(prev.mem, prev.root) :
       /\ prev.mem[id].kind = "Field"
       /\ prev.mem[id].args # <<>>
       /\ prev.mem[id].dirs # <<>>
       /\ Len(Selections(prev.mem, id)) >= 2

C7_MissingDependencyRaised ==
  pc = "returned" =>
    \A i \in DOMAIN met :
      (/\ Lookup(met[i].targ, met[i].name) = "ok"
       /\ entities[met[i].targ][met[i].name] = 0) => st = "MissingDependency"

\* C8: no object of the tree returned by either function is an object of a
\* dependency tree stored in the registry.
C8_OutputSharesNothing ==
  (pc = "returned" /\ st = "ok") =>
    \A r \in RegistryRoots : Reach(mem, out) \cap Reach(mem, r) = {}

\* C9: in replace-mode every selection list of the output is the non-Field
\* selections of the expanded list in their order, then one field per response
\* key in the order the keys were first seen.
C9_NonFieldsThenFirstSeenKeys ==
  ReplaceReturned =>
    \A p \in Pairs(Expanded, Output) :
      Labels(p[2]) = Labels(NonFields(p[1]))
                       \o [i \in DOMAIN SeenKeys(p[1], <<>>) |->
                             <<"Field", SeenKeys(p[1], <<>>)[i]>>]

\* A replace-mode call returned where the expanded top-level list had a field
\* ahead of a non-Field selection and selections spliced in for an annotated
\* field.
C9_Witness ==
  /\ ReplaceReturned /\ pc = "returned"
  /\ Len(met) >= 1
  /\ \E i, j \in DOMAIN Expanded :
       i < j /\ Expanded[i].kind = "Field" /\ Expanded[j].kind # "Field"
  /\ Len(SeenKeys(Expanded, <<>>)) >= 2

\* The registry fields that the annotated fields of the dependency fragment of
\* f, at any depth of the fragment, resolve to.
DependsOn(f) ==
  LET root == entities[f[1]][f[2]]
  IN {Target(mem0, x) : x \in AnnotatedIn(mem0, root)} \cap RegistryFields

RECURSIVE Transitively(_, _)
\* The registry fields that the fields of fs depend on, directly or transitively.
Transitively(fs, k) ==
  IF k = 0 THEN fs
  ELSE Transitively(fs \cup UNION {DependsOn(f) : f \in fs}, k - 1)

\* f is on a dependency cycle, or depends on a field that is.
LeadsIntoCycle(f) ==
  \E g \in Transitively({f}, Cardinality(RegistryFields)) :
    g \in Transitively(DependsOn(g), Cardinality(RegistryFields))

\* C10 as stated: a call ends (returns or throws) if and only if no annotated
\* field the resolver was called on names a registry field that leads into a
\* dependency cycle of the registry.
C10_EndsIffNoCycleInRegistry ==
  pc = "returned" =>
    (st # "diverge" <=>
       \A i \in DOMAIN met :
         <<met[i].targ, met[i].name>> \in RegistryFields =>
           ~LeadsIntoCycle(<<met[i].targ, met[i].name>>))

\* C10, amended: a call does not end if and only if the resolver is called on
\* an annotated field that names a registry field whose resolution is in
\* progress; no error is raised then.
C10_DivergesIffResolvedAgain ==
  pc = "returned" =>
    (st = "diverge" <=> \E i \in DOMAIN met : met[i].again)

\* A call on a registry where two fields depend on each other did not end: the
\* resolver was called on the first field while resolving the second.
C10_Witness ==
  /\ pc = "returned" /\ st = "diverge"
  /\ \E i, j \in DOMAIN met :
       i < j /\ met[j].again /\ met[i].name # met[j - 1].name
       /\ met[i].targ = met[j].targ /\ met[i].name = met[j].name

====
